---- MODULE Spec2Model ----
(***************************************************************************)
(* A model of calculator.py: the session loop, parse_command,              *)
(* parse_assignment, parse_expression, infix_to_rpn and rpn_to_result.     *)
(*                                                                         *)
(* A line is a sequence of one-character strings.  Indices are 1-based:    *)
(* the model's i is the code's i + 1.                                      *)
(*                                                                         *)
(* A Python value is a record [k, v, s]:                                   *)
(*   k = "int"    the integer v                                            *)
(*   k = "str"    the string s ("" or one of the messages)                 *)
(*   k = "float"  a float (int ** negative int); its magnitude is not kept *)
(*   k = "raise"  an exception of class s leaves the function              *)
(*   k = "beyond" the evaluation leaves the modelled domain (an integer    *)
(*                larger than MaxInt, or arithmetic on a float)            *)
(***************************************************************************)
EXTENDS Integers, Sequences, FiniteSets, TLC

\* ------------------------------------------------------------------ bounds
\* Largest magnitude of an integer the evaluator follows (Python's are unbounded).
MaxInt == 600
\* Largest magnitude of an integer a session stores in the dictionary.
MaxStored == 3
\* Longest input line, in keys, of each specification.
MaxKeys == 4
MaxPowerKeys == 5
MaxArithKeys == 6

\* ------------------------------------------------------- characters, values
digits == {"0", "1", "2", "3", "4", "5", "6", "7", "8", "9"}

ascii_letters ==
  {"a", "b", "c", "d", "e", "f", "g", "h", "i", "j", "k", "l", "m",
   "n", "o", "p", "q", "r", "s", "t", "u", "v", "w", "x", "y", "z",
   "A", "B", "C", "D", "E", "F", "G", "H", "I", "J", "K", "L", "M",
   "N", "O", "P", "Q", "R", "S", "T", "U", "V", "W", "X", "Y", "Z"}

\* int(c) of a digit character
DigitValue(c) ==
  CASE c = "0" -> 0 [] c = "1" -> 1 [] c = "2" -> 2 [] c = "3" -> 3
    [] c = "4" -> 4 [] c = "5" -> 5 [] c = "6" -> 6 [] c = "7" -> 7
    [] c = "8" -> 8 [] c = "9" -> 9

IntV(n) == [k |-> "int", v |-> n, s |-> ""]
StrV(str) == [k |-> "str", v |-> 0, s |-> str]
FloatV == [k |-> "float", v |-> 0, s |-> ""]
Raise(cls) == [k |-> "raise", v |-> 0, s |-> cls]
Beyond == [k |-> "beyond", v |-> 0, s |-> ""]

\* An integer result, or Beyond when it leaves the modelled range.
Bounded(n) == IF n > MaxInt \/ n < -MaxInt THEN Beyond ELSE IntV(n)

\* An element of the postfix list: a Python int, or a Python str (an operator
\* character or a variable name, kept as its sequence of characters).
IntTok(n) == [int |-> TRUE, v |-> n, s |-> <<>>]
StrTok(chars) == [int |-> FALSE, v |-> 0, s |-> chars]

\* str.isalpha() over the characters the model types
isalpha(str) == Len(str) > 0 /\ \A j \in 1..Len(str) : str[j] \in ascii_letters

\* ------------------------------------------------------------ infix_to_rpn
\* The state of the scan: position, output list, operator stack, "Error" flag.
ScanState(i, result, stack) == [i |-> i, result |-> result, stack |-> stack, err |-> FALSE]
ScanError == [i |-> 0, result |-> <<>>, stack |-> <<>>, err |-> TRUE]

\* while stack and stack[-1] in <set>: result.append(stack.pop())
RECURSIVE PopWhileIn(_, _, _)
PopWhileIn(stack, result, set) ==
  IF Len(stack) > 0 /\ stack[Len(stack)] \in set
  THEN PopWhileIn(SubSeq(stack, 1, Len(stack) - 1),
                  Append(result, StrTok(<<stack[Len(stack)]>>)), set)
  ELSE [stack |-> stack, result |-> result]

\* The power branch's loop: while stack and stack[-1] == "^#".  PowerPops is
\* the set of stack entries that satisfy the comparison: the stack holds
\* single characters, and the comparison is with the two-character string.
PowerPops_In == {"^", "#"}

PowerPops == {c \in {"+", "-", "*", "/", "^", "#", "("} : c = "^#"}

PopWhilePower(stack, result) == PopWhileIn(stack, result, PowerPops)

\* while i < len(infix) and infix[i] in <set>: i += 1   (returns the new i)
RECURSIVE SkipWhileIn(_, _, _)
SkipWhileIn(infix, i, set) ==
  IF i <= Len(infix) /\ infix[i] \in set THEN SkipWhileIn(infix, i + 1, set) ELSE i

\* integer = integer * 10 + int(infix[i]) over the run of digits from i to j-1
RECURSIVE ScanInteger(_, _, _, _)
ScanInteger(infix, i, j, integer) ==
  IF i < j THEN ScanInteger(infix, i + 1, j, integer * 10 + DigitValue(infix[i]))
  ELSE integer

\* UnarySign that takes a whole run of signs as one unary sign, negating when
\* the run holds an odd number of minus signs.
UnarySign_CollapseRun(infix, st) ==
  LET i == st.i
      j == SkipWhileIn(infix, i, {"+", "-"})
      minuses == Len(SelectSeq(SubSeq(infix, i, j - 1), LAMBDA c : c = "-"))
  IN
  IF infix[i] \in {"+", "-"}
     /\ (i = 1 \/ infix[i - 1] \in {"^", "*", "/", "+", "-", "("})
  THEN IF j > Len(infix)
          \/ (infix[j] \notin digits /\ infix[j] \notin ascii_letters /\ infix[j] # "(")
       THEN ScanError
       ELSE [st EXCEPT !.stack = IF minuses % 2 = 1 THEN Append(@, "#") ELSE @,
                       !.i = j]
  ELSE st

\* Lines 82-89: a unary + or - at the start, after an operator or after "(".
UnarySign(infix, st) ==
  LET i == st.i IN
  IF infix[i] \in {"+", "-"}
     /\ (i = 1 \/ infix[i - 1] \in {"^", "*", "/", "+", "-", "("})
  THEN IF i = Len(infix)
          \/ (infix[i + 1] \notin digits /\ infix[i + 1] \notin ascii_letters
              /\ infix[i + 1] # "(")
       THEN ScanError
       ELSE [st EXCEPT !.stack = IF infix[i] = "-" THEN Append(@, "#") ELSE @,
                       !.i = i + 1]
  ELSE st

\* Lines 92-112: an integer literal, a variable name, or an unacceptable symbol.
Operand(infix, st) ==
  LET i == st.i IN
  IF i <= Len(infix) /\ (infix[i] \in digits \/ infix[i] \in ascii_letters)
  THEN IF infix[i] \in digits
       THEN LET j == SkipWhileIn(infix, i, digits) IN
            [st EXCEPT !.result = Append(@, IntTok(ScanInteger(infix, i, j, 0))),
                       !.i = j]
       ELSE LET j == SkipWhileIn(infix, i, ascii_letters) IN
            [st EXCEPT !.result = Append(@, StrTok(SubSeq(infix, i, j - 1))),
                       !.i = j]
  ELSE IF i <= Len(infix) /\ infix[i] \notin {"+", "-", "*", "/", "^", "(", ")"}
       THEN ScanError
       ELSE st

\* Lines 115-169: a binary operator or a parenthesis.
Operator(infix, st) ==
  LET i == st.i IN
  IF i <= Len(infix) /\ infix[i] \in {"+", "-", "*", "/", "^", "(", ")"}
  THEN CASE infix[i] = "(" ->
              [st EXCEPT !.stack = Append(@, "("), !.i = i + 1]
         [] infix[i] = "+" ->
              LET p == PopWhileIn(st.stack, st.result, {"+", "-", "*", "/", "^", "#"}) IN
              [st EXCEPT !.stack = Append(p.stack, "+"), !.result = p.result,
                         !.i = SkipWhileIn(infix, i, {"+"})]
         [] infix[i] = "-" ->
              LET p == PopWhileIn(st.stack, st.result, {"+", "-", "*", "/", "^", "#"})
                  j == SkipWhileIn(infix, i, {"-"})
                  minuses == j - i
              IN [st EXCEPT !.stack = Append(p.stack, IF minuses % 2 = 1 THEN "-" ELSE "+"),
                            !.result = p.result, !.i = j]
         [] infix[i] \in {"*", "/"} ->
              IF i < Len(infix) /\ infix[i + 1] = infix[i]
              THEN ScanError
              ELSE LET p == PopWhileIn(st.stack, st.result, {"*", "/", "^", "#"}) IN
                   [st EXCEPT !.stack = Append(p.stack, infix[i]), !.result = p.result,
                              !.i = i + 1]
         [] infix[i] = "^" ->
              IF i < Len(infix) /\ infix[i + 1] = infix[i]
              THEN ScanError
              ELSE LET p == PopWhilePower(st.stack, st.result) IN
                   [st EXCEPT !.stack = Append(p.stack, infix[i]), !.result = p.result,
                              !.i = i + 1]
         [] infix[i] = ")" ->
              LET p == PopWhileIn(st.stack, st.result, {"+", "-", "*", "/", "^", "#"}) IN
              IF Len(p.stack) = 0
              THEN ScanError
              ELSE [st EXCEPT !.stack = SubSeq(p.stack, 1, Len(p.stack) - 1),
                              !.result = p.result, !.i = i + 1]
  ELSE st

\* The while loop of lines 78-169: one pass is UnarySign, Operand, Operator.
RECURSIVE ScanLoop(_, _)
ScanLoop(infix, st) ==
  IF st.err \/ st.i > Len(infix) THEN st
  ELSE LET u == UnarySign(infix, st) IN
       IF u.err THEN u
       ELSE LET o == Operand(infix, u) IN
            IF o.err THEN o
            ELSE ScanLoop(infix, Operator(infix, o))

\* Lines 172-177: pop what remains; a remaining "(" is an error.
RECURSIVE Drain(_, _)
Drain(stack, result) ==
  IF Len(stack) = 0 THEN [err |-> FALSE, rpn |-> result]
  ELSE IF stack[Len(stack)] = "(" THEN [err |-> TRUE, rpn |-> <<>>]
  ELSE Drain(SubSeq(stack, 1, Len(stack) - 1),
             Append(result, StrTok(<<stack[Len(stack)]>>)))

\* infix_to_rpn: [err |-> TRUE] is the code's "Error", else rpn is the list.
infix_to_rpn(infix) ==
  LET st == ScanLoop(infix, ScanState(1, <<>>, <<>>)) IN
  IF st.err THEN [err |-> TRUE, rpn |-> <<>>] ELSE Drain(st.stack, st.result)

\* ----------------------------------------------------------- rpn_to_result
\* a // b, Python's floor division (b # 0)
FloorDiv(a, b) == IF b > 0 THEN a \div b ELSE (-a) \div (-b)

\* base ** power for integers, power >= 0: Beyond as soon as the magnitude
\* passes MaxInt.  The powers of 0, 1 and -1 are given in closed form, the
\* others by repeated multiplication from acc.
RECURSIVE IntPow(_, _, _)
IntPow(base, power, acc) ==
  IF acc > MaxInt \/ acc < -MaxInt THEN Beyond
  ELSE IF power = 0 THEN IntV(acc)
  ELSE IF base = 0 THEN IntV(0)
  ELSE IF base = 1 THEN IntV(acc)
  ELSE IF base = -1 THEN IntV(IF power % 2 = 0 THEN acc ELSE -acc)
  ELSE IntPow(base, power - 1, acc * base)

\* -1 * x  (line 200)
Negate(x) ==
  CASE x.k = "int" -> IntV(-x.v)
    [] x.k = "str" -> StrV("")          \* -1 * "" is ""
    [] OTHER -> Beyond

\* a + b where a is the popped top and b the next (line 205)
Add(a, b) ==
  CASE a.k = "int" /\ b.k = "int" -> Bounded(a.v + b.v)
    [] a.k = "str" /\ b.k = "str" -> StrV("")      \* "" + "" is ""
    [] a.k = "str" \/ b.k = "str" -> Raise("TypeError")
    [] OTHER -> Beyond

\* a * b (line 207): an int times "" is "", "" times "" raises
Mul(a, b) ==
  CASE a.k = "int" /\ b.k = "int" -> Bounded(a.v * b.v)
    [] a.k = "str" /\ b.k = "str" -> Raise("TypeError")
    [] (a.k = "str" /\ b.k = "int") \/ (a.k = "int" /\ b.k = "str") -> StrV("")
    [] a.k = "str" \/ b.k = "str" -> Raise("TypeError")
    [] OTHER -> Beyond

\* base ** power (line 210)
Pow(base, power) ==
  CASE base.k = "str" \/ power.k = "str" -> Raise("TypeError")
    [] base.k = "int" /\ power.k = "int" ->
         IF power.v >= 0 THEN IntPow(base.v, power.v, 1)
         ELSE IF base.v = 0 THEN Raise("ZeroDivisionError")
         ELSE FloatV
    [] OTHER -> Beyond

\* minuend - subtrahend (line 213)
Sub(minuend, subtrahend) ==
  CASE minuend.k = "str" \/ subtrahend.k = "str" -> Raise("TypeError")
    [] minuend.k = "int" /\ subtrahend.k = "int" -> Bounded(minuend.v - subtrahend.v)
    [] OTHER -> Beyond

\* lines 215-218: the zero test, then dividend // divisor
Div(dividend, divisor) ==
  CASE divisor.k = "int" /\ divisor.v = 0 -> StrV("Invalid expression")
    [] dividend.k = "str" \/ divisor.k = "str" -> Raise("TypeError")
    [] dividend.k = "int" /\ divisor.k = "int" -> IntV(FloorDiv(dividend.v, divisor.v))
    [] OTHER -> Beyond

Top(stack) == stack[Len(stack)]
Pop(stack) == SubSeq(stack, 1, Len(stack) - 1)

\* The for loop of lines 194-223 from element i on, then lines 224-228.
\* A value that is no "int"/"str ''"/"float" operand ends the evaluation.
RECURSIVE EvalFrom(_, _, _, _)
EvalFrom(rpn_list, i, stack, vars) ==
  IF i > Len(rpn_list)
  THEN IF Len(stack) > 1 THEN StrV("Invalid expression")
       ELSE IF Len(stack) = 0 THEN StrV("")
       ELSE Top(stack)
  ELSE LET tok == rpn_list[i] IN
       IF tok.int
       THEN EvalFrom(rpn_list, i + 1, Append(stack, IntV(tok.v)), vars)
       ELSE IF tok.s = <<"#">>
       THEN IF Len(stack) = 0 THEN StrV("Invalid expression")
            ELSE LET r == Negate(Top(stack)) IN
                 IF r.k \in {"raise", "beyond"} THEN r
                 ELSE EvalFrom(rpn_list, i + 1, Append(Pop(stack), r), vars)
       ELSE IF tok.s \in {<<"+">>, <<"-">>, <<"*">>, <<"/">>, <<"^">>}
       THEN IF Len(stack) < 2 THEN StrV("Invalid expression")
            ELSE LET a == Top(stack)
                     b == Top(Pop(stack))
                     rest == Pop(Pop(stack))
                     r == CASE tok.s = <<"+">> -> Add(a, b)
                            [] tok.s = <<"*">> -> Mul(a, b)
                            [] tok.s = <<"^">> -> Pow(b, a)
                            [] tok.s = <<"-">> -> Sub(b, a)
                            [] tok.s = <<"/">> -> Div(b, a)
                 IN IF r.k \in {"raise", "beyond"} \/ r = StrV("Invalid expression")
                    THEN r
                    ELSE EvalFrom(rpn_list, i + 1, Append(rest, r), vars)
       ELSE IF tok.s \in DOMAIN vars
       THEN EvalFrom(rpn_list, i + 1, Append(stack, vars[tok.s]), vars)
       ELSE StrV("Unknown variable")

rpn_to_result(rpn_list, vars) == EvalFrom(rpn_list, 1, <<>>, vars)

\* ------------------------------------------------------- parse_expression
parse_expression(infix, vars) ==
  LET rpn_list == infix_to_rpn(infix) IN
  IF rpn_list.err THEN StrV("Invalid expression")
  ELSE rpn_to_result(rpn_list.rpn, vars)

\* ------------------------------------------------------- the session state
VARIABLES
  variables,   \* the dictionary of line 231: variable name -> value
  pending,     \* the keys of the input line that input() has received so far
  line,        \* the line being dispatched (whitespace removed), "" before the first
  printed,     \* what the dispatch of `line` wrote to standard output
  pc           \* "input": waiting in input(); "exited": the loop ended;
               \* "crashed": an exception left the program

vars == <<variables, pending, line, printed, pc>>

\* One key is a sequence of characters delivered to input() together.
Key(str) ==
  CASE str = "/exit" -> <<"/", "e", "x", "i", "t">>
    [] str = "/help" -> <<"/", "h", "e", "l", "p">>
    [] OTHER -> <<str>>

\* "".join(s.split()): every whitespace character removed
StripWhitespace(chars) == SelectSeq(chars, LAMBDA c : c # " ")

NothingPrinted == StrV("")

\* parse_command (lines 5-16): what it prints ("help" stands for the four
\* lines of the usage text)
parse_command(l) ==
  IF l = Key("/exit") THEN StrV("Bye!")
  ELSE IF l = Key("/help") THEN StrV("help")
  ELSE StrV("Unknown command")

\* line.split("=", 1): the text before and after the first "="
FirstEq(l) == CHOOSE j \in 1..Len(l) : l[j] = "=" /\ \A m \in 1..(j - 1) : l[m] # "="
Lhs(l) == SubSeq(l, 1, FirstEq(l) - 1)
Rhs(l) == SubSeq(l, FirstEq(l) + 1, Len(l))
HasEq(l) == \E j \in 1..Len(l) : l[j] = "="

\* Store that keeps the value of a name that already has one.
Store_KeepFirst(vars0, name, value) ==
  [n \in DOMAIN vars0 \cup {name} |-> IF n \in DOMAIN vars0 THEN vars0[n] ELSE value]

\* variables[name] = value (line 44)
Store(vars0, name, value) ==
  [n \in DOMAIN vars0 \cup {name} |-> IF n = name THEN value ELSE vars0[n]]

\* parse_assignment that stores the result before it tests it.
parse_assignment_StoreBeforeCheck(l, vars0) ==
  LET lhs == Lhs(l)
      rhs == Rhs(l)
  IN IF Len(lhs) = 0 THEN [out |-> StrV("Invalid expression"), vars |-> vars0]
     ELSE IF ~isalpha(lhs) THEN [out |-> StrV("Invalid identifier"), vars |-> vars0]
     ELSE IF Len(rhs) = 0 THEN [out |-> StrV("Invalid assignment"), vars |-> vars0]
     ELSE IF isalpha(rhs) /\ rhs \notin DOMAIN vars0
          THEN [out |-> StrV("Unknown variable"), vars |-> vars0]
     ELSE LET result == parse_expression(rhs, vars0) IN
          IF result.k \in {"raise", "beyond"} THEN [out |-> result, vars |-> vars0]
          ELSE IF result \in {StrV("Invalid expression"), StrV("Unknown variable")}
          THEN [out |-> StrV("Invalid assignment"), vars |-> Store(vars0, lhs, result)]
          ELSE [out |-> NothingPrinted, vars |-> Store(vars0, lhs, result)]

\* parse_assignment that prints the message of the failed evaluation itself.
parse_assignment_Unmasked(l, vars0) ==
  LET lhs == Lhs(l)
      rhs == Rhs(l)
  IN IF Len(lhs) = 0 THEN [out |-> StrV("Invalid expression"), vars |-> vars0]
     ELSE IF ~isalpha(lhs) THEN [out |-> StrV("Invalid identifier"), vars |-> vars0]
     ELSE IF Len(rhs) = 0 THEN [out |-> StrV("Invalid assignment"), vars |-> vars0]
     ELSE IF isalpha(rhs) /\ rhs \notin DOMAIN vars0
          THEN [out |-> StrV("Unknown variable"), vars |-> vars0]
     ELSE LET result == parse_expression(rhs, vars0) IN
          IF result.k \in {"raise", "beyond"} THEN [out |-> result, vars |-> vars0]
          ELSE IF result \in {StrV("Invalid expression"), StrV("Unknown variable")}
          THEN [out |-> result, vars |-> vars0]
          ELSE [out |-> NothingPrinted, vars |-> Store(vars0, lhs, result)]

\* parse_assignment (lines 19-44) returns [out, vars]: what it prints (or the
\* exception that leaves it) and the dictionary afterwards.
parse_assignment(l, vars0) ==
  LET lhs == Lhs(l)
      rhs == Rhs(l)
  IN IF Len(lhs) = 0 THEN [out |-> StrV("Invalid expression"), vars |-> vars0]
     ELSE IF ~isalpha(lhs) THEN [out |-> StrV("Invalid identifier"), vars |-> vars0]
     ELSE IF Len(rhs) = 0 THEN [out |-> StrV("Invalid assignment"), vars |-> vars0]
     ELSE IF isalpha(rhs) /\ rhs \notin DOMAIN vars0
          THEN [out |-> StrV("Unknown variable"), vars |-> vars0]
     ELSE LET result == parse_expression(rhs, vars0) IN
          IF result.k \in {"raise", "beyond"} THEN [out |-> result, vars |-> vars0]
          ELSE IF result \in {StrV("Invalid expression"), StrV("Unknown variable")}
          THEN [out |-> StrV("Invalid assignment"), vars |-> vars0]
          ELSE [out |-> NothingPrinted, vars |-> Store(vars0, lhs, result)]

\* ------------------------------------------------------------------ actions
Init ==
  /\ variables = <<>>
  /\ pending = <<>>
  /\ line = <<>>
  /\ printed = NothingPrinted
  /\ pc = "input"

\* input() receives one more key of the current line.  The previous line and
\* its output are forgotten here: the code reads neither again.
Type(keys, max) ==
  /\ pc = "input"
  /\ Len(pending) < max
  /\ \E key \in keys : pending' = Append(pending, key)
  /\ line' = <<>>
  /\ printed' = NothingPrinted
  /\ UNCHANGED <<variables, pc>>

\* The characters of the keys received
Chars(keys) ==
  LET F[j \in 0..Len(keys)] == IF j = 0 THEN <<>> ELSE F[j - 1] \o Key(keys[j])
  IN F[Len(keys)]

Received == StripWhitespace(Chars(pending))

\* Line 235: an empty line is ignored.
EmptyLine ==
  /\ pc = "input"
  /\ Received = <<>>
  /\ pending' = <<>>
  /\ line' = <<>>
  /\ printed' = NothingPrinted
  /\ UNCHANGED <<variables, pc>>

\* Lines 236-237 and the loop test of line 233.
Command ==
  /\ pc = "input"
  /\ Received # <<>>
  /\ Received[1] = "/"
  /\ pending' = <<>>
  /\ line' = Received
  /\ printed' = parse_command(Received)
  /\ pc' = IF Received = Key("/exit") THEN "exited" ELSE "input"
  /\ UNCHANGED variables

\* Lines 238-239.
Assignment ==
  /\ pc = "input"
  /\ Received # <<>>
  /\ Received[1] # "/"
  /\ HasEq(Received)
  /\ LET r == parse_assignment(Received, variables) IN
       /\ r.out.k # "beyond"
       /\ \A n \in DOMAIN r.vars :
            r.vars[n].k = "int" => r.vars[n].v \in -MaxStored..MaxStored
       /\ pending' = <<>>
       /\ line' = Received
       /\ printed' = r.out
       /\ variables' = r.vars
       /\ pc' = IF r.out.k = "raise" THEN "crashed" ELSE "input"

\* Lines 240-242.
Expression ==
  /\ pc = "input"
  /\ Received # <<>>
  /\ Received[1] # "/"
  /\ ~HasEq(Received)
  /\ LET result == parse_expression(Received, variables) IN
       /\ result.k # "beyond"
       /\ pending' = <<>>
       /\ line' = Received
       /\ printed' = result
       /\ pc' = IF result.k = "raise" THEN "crashed" ELSE "input"
  /\ UNCHANGED variables

\* ----------------------------------------------------------- specifications
\* A whole session: assignments, expressions over the stored variables, /exit.
SessionKeys == {"a", "=", "3", "+", "(", ")", "/exit"}

TypeSession == Type(SessionKeys, MaxKeys)

Next == TypeSession \/ EmptyLine \/ Command \/ Assignment \/ Expression

Spec == Init /\ [][Next]_vars

\* Expression lines with unary signs and powers, whitespace and /help.
PowerKeys == {"0", "2", "3", "5", "-", "+", "^", " ", "/help"}

TypePower == Type(PowerKeys, MaxPowerKeys)

NextPower == TypePower \/ EmptyLine \/ Command \/ Expression

SpecPower == Init /\ [][NextPower]_vars

\* Expression lines over + - * / and parentheses.
ArithKeys == {"2", "3", "+", "-", "*", "/", "(", ")"}

TypeArith == Type(ArithKeys, MaxArithKeys)

NextArith == TypeArith \/ EmptyLine \/ Command \/ Expression

SpecArith == Init /\ [][NextArith]_vars

\* ================================================================== claims
\* In a state reached by dispatching a non-empty line, `line` is that line,
\* `printed` its output and `variables` the dictionary afterwards; while a
\* line is being received, `line` is empty.

ErrorMessages ==
  {StrV("Invalid expression"), StrV("Unknown variable"), StrV("Invalid identifier"),
   StrV("Invalid assignment"), StrV("Unknown command")}

\* The step dispatches a non-empty line (line' is the line, variables the
\* dictionary before it, variables' the dictionary after it).
Dispatching == pc = "input" /\ pending' = <<>> /\ line' # <<>>

IsAssignmentLine(l) == l # <<>> /\ l[1] # "/" /\ HasEq(l)
IsExpressionLine(l) == l # <<>> /\ l[1] # "/" /\ ~HasEq(l)

\* A run of decimal digits and the number it writes.
IsNumber(chars) == Len(chars) > 0 /\ \A j \in 1..Len(chars) : chars[j] \in digits

RECURSIVE NumberOf(_)
NumberOf(chars) ==
  IF Len(chars) = 0 THEN 0
  ELSE 10 * NumberOf(SubSeq(chars, 1, Len(chars) - 1)) + DigitValue(chars[Len(chars)])

\* base to the power exponent (exponent >= 0); a power whose magnitude passes
\* MaxInt is given as some number of that sign beyond MaxInt.
RECURSIVE RefPowerFrom(_, _, _)
RefPowerFrom(base, exponent, acc) ==
  IF exponent = 0 \/ acc > MaxInt \/ acc < -MaxInt THEN acc
  ELSE RefPowerFrom(base, exponent - 1, acc * base)

RefPower(base, exponent) ==
  IF exponent = 0 THEN 1
  ELSE IF base \in {0, 1} THEN base
  ELSE IF base = -1 THEN (IF exponent % 2 = 0 THEN 1 ELSE -1)
  ELSE RefPowerFrom(base, exponent, 1)

\* ---- C1: every line ends in a controlled outcome and the loop reads on.
\* C1 (as claimed): after any expression or assignment line, what was printed
\* is an integer, nothing, or one of the fixed messages, and the program is
\* back in input(): no exception leaves the dispatch.
C1_ControlledOutcome ==
  (IsAssignmentLine(line) \/ IsExpressionLine(line)) =>
    /\ pc = "input"
    /\ printed.k = "int" \/ printed = NothingPrinted \/ printed \in ErrorMessages

\* ---- C2: the dictionary holds integers only.
\* C2 (as claimed): in every reachable state every value of `variables` is an
\* integer.
C2_IntegerValues == \A n \in DOMAIN variables : variables[n].k = "int"

\* ---- C3: only a successful assignment changes the dictionary.
\* C3: a step that prints an error message leaves `variables` as it was, and a
\* step that changes `variables` is the dispatch of an assignment line that
\* printed nothing.
C3_OnlyAssignmentChangesTable ==
  [][ /\ printed' \in ErrorMessages => variables' = variables
      /\ variables' # variables =>
           IsAssignmentLine(line') /\ printed' = NothingPrinted ]_vars

\* An assignment to a variable that already has a value was rejected.
C3_Witness ==
  /\ IsAssignmentLine(line)
  /\ printed \in ErrorMessages
  /\ Lhs(line) \in DOMAIN variables

\* ---- C4: variable round trip.
\* C4: dispatching `x=e` with x all letters and e evaluating to the integer v
\* leaves variables[x] = v and every other entry as it was; dispatching the
\* expression `x` prints the value stored for x, or "Unknown variable" when x
\* has no entry; and an entry changes only in the dispatch of an assignment
\* to its own name.
C4_RoundTrip ==
  [][ Dispatching =>
      /\ ( /\ IsAssignmentLine(line')
           /\ isalpha(Lhs(line'))
           /\ Len(Rhs(line')) > 0
           /\ parse_expression(Rhs(line'), variables).k = "int" )
         => /\ DOMAIN variables' = DOMAIN variables \cup {Lhs(line')}
            /\ variables'[Lhs(line')] = parse_expression(Rhs(line'), variables)
            /\ \A n \in DOMAIN variables \ {Lhs(line')} : variables'[n] = variables[n]
      /\ (IsExpressionLine(line') /\ isalpha(line'))
         => printed' = IF line' \in DOMAIN variables THEN variables[line']
                       ELSE StrV("Unknown variable")
      /\ \A n \in DOMAIN variables :
           /\ n \in DOMAIN variables'
           /\ variables'[n] # variables[n] =>
                IsAssignmentLine(line') /\ Lhs(line') = n /\ printed' = NothingPrinted
    ]_vars

\* `a` was evaluated and gave the 3 assigned to it, with `aa` stored as well.
C4_Witness ==
  /\ line = <<"a">>
  /\ printed = IntV(3)
  /\ <<"a", "a">> \in DOMAIN variables

LeadingMinusNumber(l) == Len(l) >= 2 /\ l[1] = "-" /\ IsNumber(Tail(l))
TwoLeadingMinuses(l) ==
  Len(l) >= 3 /\ l[1] = "-" /\ l[2] = "-" /\ IsNumber(SubSeq(l, 3, Len(l)))
MinusNumberPlusNumber(l, p) ==
  /\ l[1] = "-"
  /\ l[p] = "+"
  /\ IsNumber(SubSeq(l, 2, p - 1))
  /\ IsNumber(SubSeq(l, p + 1, Len(l)))

\* C5 (as claimed): `--n` evaluates to n.
C5_DoubleMinusIsPlus ==
  TwoLeadingMinuses(line) => printed = IntV(NumberOf(SubSeq(line, 3, Len(line))))

\* C5 (amended): `-n` evaluates to -n and `-n+m` to m - n; a line that begins
\* with two minus signs followed by an integer literal prints "Invalid
\* expression".
C5_UnaryMinusAtStart ==
  /\ LeadingMinusNumber(line) => printed = IntV(-NumberOf(Tail(line)))
  /\ \A p \in 3..(Len(line) - 1) :
       MinusNumberPlusNumber(line, p) =>
         printed = IntV(NumberOf(SubSeq(line, p + 1, Len(line)))
                        - NumberOf(SubSeq(line, 2, p - 1)))
  /\ TwoLeadingMinuses(line) => printed = StrV("Invalid expression")

C5_Witness ==
  /\ line = <<"-", "-", "5">>
  /\ printed = StrV("Invalid expression")

\* ---- C6: unary minus and power.
\* C6 (as claimed): `-a^b` with integer literals a and b evaluates to (-a)^b.
C6_UnaryBindsTighterThanPower ==
  \A p \in 3..(Len(line) - 1) :
    ( /\ line[1] = "-"
      /\ line[p] = "^"
      /\ IsNumber(SubSeq(line, 2, p - 1))
      /\ IsNumber(SubSeq(line, p + 1, Len(line))) )
    => printed = IntV(RefPower(-NumberOf(SubSeq(line, 2, p - 1)),
                               NumberOf(SubSeq(line, p + 1, Len(line)))))

\* ---- C7: power groups to the right.
\* C7: `a^b^c` with non-negative integer literals evaluates to a^(b^c).
C7_PowerGroupsRight ==
  \A p \in 2..(Len(line) - 1) : \A q \in (p + 2)..(Len(line) - 1) :
    ( /\ line[p] = "^"
      /\ line[q] = "^"
      /\ IsNumber(SubSeq(line, 1, p - 1))
      /\ IsNumber(SubSeq(line, p + 1, q - 1))
      /\ IsNumber(SubSeq(line, q + 1, Len(line))) )
    => printed = IntV(RefPower(NumberOf(SubSeq(line, 1, p - 1)),
                               RefPower(NumberOf(SubSeq(line, p + 1, q - 1)),
                                        NumberOf(SubSeq(line, q + 1, Len(line))))))

C7_Witness ==
  /\ line = <<"2", "^", "3", "^", "2">>
  /\ printed = IntV(512)

\* ---- C8: + - * / and parentheses against a reference evaluator.
\* The reference grammar:
\*   Sum     ::= Product (("+" | "-") Product)*
\*   Product ::= Factor (("*" | "/") Factor)*
\*   Factor  ::= ["-"] Number | "(" Sum ")"
\* with / the floor division and a zero divisor outside the grammar.
RefFail == [ok |-> FALSE, v |-> 0, i |-> 0]
RefOk(v, i) == [ok |-> TRUE, v |-> v, i |-> i]

RECURSIVE RefNumberEnd(_, _)
RefNumberEnd(s, i) == IF i <= Len(s) /\ s[i] \in digits THEN RefNumberEnd(s, i + 1) ELSE i

RefNumber(s, i, sign) ==
  LET j == RefNumberEnd(s, i) IN
  IF j = i THEN RefFail ELSE RefOk(sign * NumberOf(SubSeq(s, i, j - 1)), j)

RefFloorDiv(a, b) ==
  CHOOSE q \in -(IF a < 0 THEN -a ELSE a)..(IF a < 0 THEN -a ELSE a) :
    \E r \in 0..((IF b < 0 THEN -b ELSE b) - 1) :
      a = q * b + (IF b < 0 THEN -r ELSE r)

RECURSIVE RefSum(_, _)
RECURSIVE RefSumRest(_, _, _)
RECURSIVE RefProduct(_, _)
RECURSIVE RefProductRest(_, _, _)
RECURSIVE RefFactor(_, _)

RefFactor(s, i) ==
  IF i > Len(s) THEN RefFail
  ELSE IF s[i] = "("
  THEN LET e == RefSum(s, i + 1) IN
       IF e.ok /\ e.i <= Len(s) /\ s[e.i] = ")" THEN RefOk(e.v, e.i + 1) ELSE RefFail
  ELSE IF s[i] = "-" THEN RefNumber(s, i + 1, -1)
  ELSE RefNumber(s, i, 1)

RefProductRest(s, acc, i) ==
  IF i <= Len(s) /\ s[i] \in {"*", "/"}
  THEN LET f == RefFactor(s, i + 1) IN
       IF ~f.ok \/ (s[i] = "/" /\ f.v = 0) THEN RefFail
       ELSE RefProductRest(s, IF s[i] = "*" THEN acc * f.v ELSE RefFloorDiv(acc, f.v), f.i)
  ELSE RefOk(acc, i)

RefProduct(s, i) ==
  LET f == RefFactor(s, i) IN
  IF f.ok THEN RefProductRest(s, f.v, f.i) ELSE RefFail

RefSumRest(s, acc, i) ==
  IF i <= Len(s) /\ s[i] \in {"+", "-"}
  THEN LET t == RefProduct(s, i + 1) IN
       IF ~t.ok THEN RefFail
       ELSE RefSumRest(s, IF s[i] = "+" THEN acc + t.v ELSE acc - t.v, t.i)
  ELSE RefOk(acc, i)

RefSum(s, i) ==
  LET t == RefProduct(s, i) IN
  IF t.ok THEN RefSumRest(s, t.v, t.i) ELSE RefFail

\* The whole line is a Sum.
Reference(s) ==
  LET r == RefSum(s, 1) IN
  IF r.ok /\ r.i = Len(s) + 1 THEN r ELSE RefFail

\* C8 (as claimed): a line the reference grammar accepts prints the value the
\* reference evaluator gives it.
C8_MatchesReference ==
  (line # <<>> /\ Reference(line).ok) => printed = IntV(Reference(line).v)

\* ---- C10: malformed infix is rejected.
\* l[j] ends an operand: a digit, a letter, or the ")" of a non-empty group.
EndsOperand(l, j) ==
  l[j] \in digits \/ l[j] \in ascii_letters \/ (l[j] = ")" /\ j > 1 /\ l[j - 1] # "(")
\* l[j] starts an operand: a digit, a letter, or the "(" of a non-empty group.
StartsOperand(l, j) ==
  l[j] \in digits \/ l[j] \in ascii_letters
    \/ (l[j] = "(" /\ j < Len(l) /\ l[j + 1] # ")")

\* Two operands side by side (not two digits of one literal or two letters of
\* one name).
AdjacentOperands(l) ==
  \E j \in 1..(Len(l) - 1) :
    /\ EndsOperand(l, j)
    /\ StartsOperand(l, j + 1)
    /\ ~(l[j] \in digits /\ l[j + 1] \in digits)
    /\ ~(l[j] \in ascii_letters /\ l[j + 1] \in ascii_letters)

\* A binary operator with nothing, or a ")", to its right.
DanglingOperator(l) ==
  \E j \in 1..Len(l) :
    /\ l[j] \in {"+", "-", "*", "/", "^"}
    /\ j = Len(l) \/ l[j + 1] = ")"

====
